---- MODULE Spec2Model ----
(***************************************************************************)
(* Hevy-Insights backend: the HevyClient wrapper (backend/hevy_api.py) and *)
(* the FastAPI relay (backend/fastapi_server.py).                          *)
(*                                                                         *)
(* A Python str is a sequence of tokens (<<>> is ""); "x in s" is token    *)
(* membership.  None is the one-token sequence <<"<None>">>, a token that  *)
(* no str of the model contains.                                           *)
(***************************************************************************)
EXTENDS Integers, Sequences, FiniteSets, TLC

VARIABLES
    client,    \* the HevyClient instance: auth_token and the session's auth-token header
    pc,        \* "idle", or "call" while an outbound call is in flight
    req,       \* the operation being handled (relay request or direct client call)
    call,      \* the outbound call in flight, NoCall otherwise
    ncalls,    \* outbound calls issued by the current operation
    outcome,   \* what the transport gave for the last outbound call
    ret,       \* what the last client-wrapper method returned or raised
    resp,      \* the relay's response to the last request
    clock,     \* seconds
    limiter,   \* slowapi counters: per source address, [count, expiry]
    accepted   \* per source address, when the logins of the last 60 seconds reached HevyClient.login

vars == <<client, pc, req, call, ncalls, outcome, ret, resp, clock, limiter, accepted>>

----------------------------------------------------------------------------
(* Python values *)

None == <<"<None>">>
Truthy(s) == s # None /\ s # <<>>
In(tok, s) == \E i \in 1..Len(s) : s[i] = tok

T1 == <<"t1">>
T2 == <<"t2">>
U1 == <<"u1">>
Bob == <<"bob">>
Mail == <<"a", "@", "b">>

\* Input sets
Addrs == {"ip1", "ip2"}
Identifiers == {<<>>, Bob, Mail, <<"@">>}
HeaderTokens == {None, <<>>, T1}          \* None: the header / field is absent
CtorTokens == {None, <<>>, T1}
Usernames == {<<>>, Bob, <<"Unauthorized">>}
Offsets == {-5, 0, 5}
IssuedTokens == {None, <<>>, T2}          \* "auth_token" of a login response body
IssuedIds == {None, U1}
Reasons == {"Error", "Unauthorized"}      \* reason phrase of an error response

\* Bounds
MaxHits == 6
MaxWindows == 1

\* Program constants
LoginLimit == 5
WindowSeconds == 60

----------------------------------------------------------------------------
(* The transport: what session.post / session.get can give *)

NoBody == [json |-> "none", auth_token |-> None, user_id |-> None, workouts |-> "none"]
BadJson == [NoBody EXCEPT !.json = "invalid"]
NonDict == [NoBody EXCEPT !.json = "nondict"]
LoginBodies ==
    {BadJson, NonDict} \cup
    {[json |-> "dict", auth_token |-> t, user_id |-> u, workouts |-> "none"] :
        t \in IssuedTokens, u \in IssuedIds}
AccountBodies == {BadJson, NonDict, [NoBody EXCEPT !.json = "dict"]}
WorkoutBodies ==
    {BadJson, NonDict} \cup
    {[NoBody EXCEPT !.json = "dict", !.workouts = w] : w \in {"list", "null", "missing"}}

Response(s, r, b) == [kind |-> "response", status |-> s, reason |-> r, body |-> b]
Raised(k) == [kind |-> k, status |-> 0, reason |-> "", body |-> NoBody]
NoOutcome == Raised("none")

ErrorResponses == {Response(s, r, NoBody) : s \in {401, 500}, r \in Reasons}
Failures == {Raised("ConnectionError"), Raised("Timeout"), Raised("Other")}
OutcomesFor(path) ==
    ErrorResponses \cup Failures \cup
    CASE path = "/login" -> {Response(s, "OK", b) : s \in {200, 204}, b \in LoginBodies}
      [] path = "/validate_auth_token" -> {Response(s, "OK", NoBody) : s \in {200, 204}}
      [] path = "/user/account" -> {Response(200, "OK", b) : b \in AccountBodies}
      [] path = "/user_workouts_paged" -> {Response(200, "OK", b) : b \in WorkoutBodies}
      [] OTHER -> {}

----------------------------------------------------------------------------
(* HevyClient (hevy_api.py) *)

NoVal == [valid |-> FALSE, auth_token |-> None, user_id |-> None,
          username |-> None, email |-> None, data |-> NoBody]
NoRet == [kind |-> "none", msg |-> <<>>, val |-> NoVal]
Returned(v) == [kind |-> "return", msg |-> <<>>, val |-> v]
HevyError(m) == [kind |-> "HevyError", msg |-> m, val |-> NoVal]
\* an exception that is not a HevyError leaving the method
Propagates(k) == [kind |-> "exception", msg |-> <<k>>, val |-> NoVal]

\* HevyClient.__init__: the headers are updated only for a truthy token
NewClient(t) == [auth_token |-> t, hdr |-> IF Truthy(t) THEN t ELSE None]

\* _update_headers: the session's auth-token header becomes the stored token
\* (a None value leaves no header on the outbound call)
UpdateHeaders(c) == [c EXCEPT !.hdr = c.auth_token]

NoCall == [path |-> "none", hdr |-> None, token |-> None, user |-> <<>>,
           offset |-> 0, timeout |-> "none"]
\* An outbound call through the session: the session's auth-token header is
\* attached; no timeout= argument is passed at any call site.
Outbound(c, path, user, offset) ==
    [path |-> path, hdr |-> c.hdr, token |-> c.auth_token, user |-> user,
     offset |-> offset, timeout |-> "none"]

\* a guard that tests "is not None" instead of truthiness
AccountHasToken_NotNone(c) == c.auth_token # None

\* the guards "if not self.auth_token"
ValidateHasToken(c) == Truthy(c.auth_token)
AccountHasToken(c) == Truthy(c.auth_token)
WorkoutsHasToken(c) == Truthy(c.auth_token)

\* get_workouts: "if username: params['username'] = username"
WorkoutParams(user) == IF Truthy(user) THEN user ELSE <<>>

\* str(e) of the exception of the transport.  For an HTTPError it holds the
\* response's reason phrase and the url with its query parameters.
ExcText(o, c) ==
    IF o.kind = "response" THEN <<o.reason, "for url:", c.path>> \o c.user
    ELSE <<o.kind>>

\* response.raise_for_status()
RaisesForStatus(o) == o.status >= 400 /\ o.status < 600

\* the except clauses shared by login, get_user_account and get_workouts,
\* for an outcome that is not a usable response
TranslateFailure(o, c, msg401) ==
    CASE o.kind = "ConnectionError" -> HevyError(<<"Connection error occurred:">> \o ExcText(o, c))
      [] o.kind = "Timeout" -> HevyError(<<"Request timed out:">> \o ExcText(o, c))
      [] o.kind = "Other" -> HevyError(<<"Unexpected error occurred:">> \o ExcText(o, c))
      [] o.kind = "response" /\ RaisesForStatus(o) ->
            IF o.status = 401 THEN HevyError(msg401)
            ELSE HevyError(<<"HTTP error occurred:">> \o ExcText(o, c))
      [] o.kind = "response" /\ o.body.json = "invalid" ->
            HevyError(<<"JSON decode error occurred:">>)
      [] OTHER -> HevyError(<<"Unexpected error occurred:">>)   \* data.get on a non-dict

Usable(o) == o.kind = "response" /\ ~RaisesForStatus(o) /\ o.body.json = "dict"

\* a HevyUser whose username is the identifier whatever it holds
HevyUserOf_UsernameAlways(data, id) ==
    [NoVal EXCEPT !.auth_token = data.auth_token,
                  !.user_id = data.user_id,
                  !.username = id,
                  !.email = IF In("@", id) THEN id ELSE None]

\* the HevyUser that login builds
HevyUserOf(data, id) ==
    [NoVal EXCEPT !.auth_token = data.auth_token,
                  !.user_id = data.user_id,
                  !.username = IF ~In("@", id) THEN id ELSE None,
                  !.email = IF In("@", id) THEN id ELSE None]

\* login, from the transport's outcome on: [client, ret]
LoginMsg401 == <<"Invalid credentials">>
LoginStore(c, data) == UpdateHeaders([c EXCEPT !.auth_token = data.auth_token])
LoginFinish(c, id, o, cl) ==
    IF Usable(o)
    THEN [client |-> LoginStore(c, o.body), ret |-> Returned(HevyUserOf(o.body, id))]
    ELSE [client |-> c, ret |-> TranslateFailure(o, cl, LoginMsg401)]

\* validity taken from response.ok instead of status_code == 200
IsValid_Ok(o) == o.status < 400

\* validate_auth_token, from the outcome on: only requests.RequestException is caught
IsValid(o) == o.status = 200
ValidateFinish(c, o, cl) ==
    [client |-> c,
     ret |-> CASE o.kind = "response" -> Returned([NoVal EXCEPT !.valid = IsValid(o)])
               [] o.kind \in {"ConnectionError", "Timeout"} ->
                     HevyError(<<"Token validation failed:">> \o ExcText(o, cl))
               [] OTHER -> Propagates(o.kind)]

UnauthorizedMsg == <<"Unauthorized", "- Invalid or expired auth token">>
NoTokenMsg == <<"No auth token available. Please login first.">>

AccountFinish(c, o, cl) ==
    [client |-> c,
     ret |-> IF Usable(o) THEN Returned([NoVal EXCEPT !.data = o.body])
             ELSE TranslateFailure(o, cl, UnauthorizedMsg)]

\* get_workouts: len(data.get("workouts", [])) raises on a null "workouts"
WorkoutsFinish(c, o, cl) ==
    [client |-> c,
     ret |-> IF Usable(o)
             THEN IF o.body.workouts = "null"
                  THEN HevyError(<<"Unexpected error occurred:">>)
                  ELSE Returned([NoVal EXCEPT !.data = o.body])
             ELSE TranslateFailure(o, cl, UnauthorizedMsg)]


----------------------------------------------------------------------------
(* The relay (fastapi_server.py) *)

NoResp == [kind |-> "none", status |-> 0, detail |-> <<>>, val |-> NoVal, error |-> None]
Json(v, e) == [kind |-> "json", status |-> 200, detail |-> <<>>, val |-> v, error |-> e]
HTTPException(s, d) == [kind |-> "error", status |-> s, detail |-> d, val |-> NoVal, error |-> None]
\* an exception no except clause of the handler catches
Unhandled == [kind |-> "escaped", status |-> 500, detail |-> <<>>, val |-> NoVal, error |-> None]
\* FastAPI's answer to a request that lacks a required parameter or breaks ge=0
Unprocessable == HTTPException(422, <<"validation error">>)
\* slowapi's _rate_limit_exceeded_handler
TooManyRequests == HTTPException(429, <<"Rate limit exceeded">>)

\* status_code = 401 if "Unauthorized" in str(e) else 500
StatusOf(msg) == IF In("Unauthorized", msg) THEN 401 ELSE 500

\* a login handler that maps HevyError the way the account handler does
LoginRespond_ByMessage(r) ==
    IF r.kind = "return"
    THEN IF r.val.auth_token = None \/ r.val.user_id = None
         THEN HTTPException(500, <<"Internal server error">>)
         ELSE Json(r.val, None)
    ELSE IF r.kind = "HevyError" THEN HTTPException(StatusOf(r.msg), r.msg)
    ELSE HTTPException(500, <<"Internal server error">>)

\* login's mapping.  LoginResponse needs str auth_token and user_id: building it
\* from a None raises inside the try and falls to "except Exception".
LoginRespond(r) ==
    IF r.kind = "return"
    THEN IF r.val.auth_token = None \/ r.val.user_id = None
         THEN HTTPException(500, <<"Internal server error">>)
         ELSE Json(r.val, None)
    ELSE IF r.kind = "HevyError" THEN HTTPException(401, r.msg)
    ELSE HTTPException(500, <<"Internal server error">>)

\* validate_token's mapping: only HevyError is caught
ValidateRespond(r) ==
    IF r.kind = "return" THEN Json(r.val, None)
    ELSE IF r.kind = "HevyError" THEN Json([NoVal EXCEPT !.valid = FALSE], r.msg)
    ELSE Unhandled

\* get_user_account's and get_workouts' mapping: only HevyError is caught
DataRespond(r) ==
    IF r.kind = "return" THEN Json(r.val, None)
    ELSE IF r.kind = "HevyError" THEN HTTPException(StatusOf(r.msg), r.msg)
    ELSE Unhandled

\* The limiter: Limiter(key_func=get_remote_address) with "5/minute", the
\* default fixed-window strategy over in-memory counters.  A counter starts
\* its window at the first hit after the previous window ran out; every
\* request is counted, the rejected ones too.
Current(l, now) == IF l.expiry <= now THEN 0 ELSE l.count
Hit(l, now) ==
    [count |-> Current(l, now) + 1,
     expiry |-> IF Current(l, now) = 0 THEN now + WindowSeconds ELSE l.expiry]
Allowed(l) == l.count <= LoginLimit

NoReq == [layer |-> "none", ep |-> "none", addr |-> "none", id |-> <<>>,
          token |-> None, user |-> <<>>, offset |-> 0]
RelayReq(ep, a, id, t, u, off) ==
    [layer |-> "relay", ep |-> ep, addr |-> a, id |-> id, token |-> t,
     user |-> u, offset |-> off]
ClientReq(ep, id, u, off) ==
    [layer |-> "client", ep |-> ep, addr |-> "none", id |-> id, token |-> None,
     user |-> u, offset |-> off]

\* the times of a log that lie in the 60 seconds ending at now
Recent(log, now) == SelectSeq(log, LAMBDA t : t > now - WindowSeconds)

----------------------------------------------------------------------------
(* State machine *)

InitWith(c) ==
    /\ client = c
    /\ pc = "idle"
    /\ req = NoReq
    /\ call = NoCall
    /\ ncalls = 0
    /\ outcome = NoOutcome
    /\ ret = NoRet
    /\ resp = NoResp
    /\ clock = 0
    /\ limiter = [a \in Addrs |-> [count |-> 0, expiry |-> 0]]
    /\ accepted = [a \in Addrs |-> <<>>]

Init == InitWith(NewClient(None))

\* the handler issued an outbound call and waits for the transport
Issue(c, cl) ==
    /\ client' = c
    /\ pc' = "call"
    /\ call' = cl
    /\ ncalls' = 1
    /\ outcome' = NoOutcome
    /\ ret' = NoRet
    /\ resp' = NoResp

\* the handler ended without an outbound call
Answer(c, r, rs) ==
    /\ client' = c
    /\ pc' = "idle"
    /\ call' = NoCall
    /\ ncalls' = 0
    /\ outcome' = NoOutcome
    /\ ret' = r
    /\ resp' = rs

\* POST /api/login
RelayLogin(a, id) ==
    /\ pc = "idle"
    /\ Current(limiter[a], clock) < MaxHits
    /\ req' = RelayReq("login", a, id, None, <<>>, 0)
    /\ limiter' = [limiter EXCEPT ![a] = Hit(limiter[a], clock)]
    /\ UNCHANGED clock
    /\ IF Allowed(limiter'[a])
       THEN /\ accepted' = [accepted EXCEPT ![a] = Append(accepted[a], clock)]
            /\ Issue(NewClient(None), Outbound(NewClient(None), "/login", <<>>, 0))
       ELSE /\ UNCHANGED accepted
            /\ Answer(client, NoRet, TooManyRequests)

\* POST /api/validate
RelayValidate(t) ==
    /\ pc = "idle"
    /\ req' = RelayReq("validate", "none", <<>>, t, <<>>, 0)
    /\ UNCHANGED <<clock, limiter, accepted>>
    /\ IF t = None THEN Answer(client, NoRet, Unprocessable)
       ELSE IF ValidateHasToken(NewClient(t))
       THEN Issue(NewClient(t), Outbound(NewClient(t), "/validate_auth_token", <<>>, 0))
       ELSE Answer(NewClient(t), Returned([NoVal EXCEPT !.valid = FALSE]),
                   ValidateRespond(Returned([NoVal EXCEPT !.valid = FALSE])))

\* GET /api/user/account
RelayAccount(t) ==
    /\ pc = "idle"
    /\ req' = RelayReq("account", "none", <<>>, t, <<>>, 0)
    /\ UNCHANGED <<clock, limiter, accepted>>
    /\ IF t = None THEN Answer(client, NoRet, Unprocessable)
       ELSE IF AccountHasToken(NewClient(t))
       THEN Issue(NewClient(t), Outbound(NewClient(t), "/user/account", <<>>, 0))
       ELSE Answer(NewClient(t), HevyError(NoTokenMsg), DataRespond(HevyError(NoTokenMsg)))

\* GET /api/workouts
RelayWorkouts(t, u, off) ==
    /\ pc = "idle"
    /\ req' = RelayReq("workouts", "none", <<>>, t, u, off)
    /\ UNCHANGED <<clock, limiter, accepted>>
    /\ IF t = None \/ off < 0 THEN Answer(client, NoRet, Unprocessable)
       ELSE IF WorkoutsHasToken(NewClient(t))
       THEN Issue(NewClient(t),
                  Outbound(NewClient(t), "/user_workouts_paged", WorkoutParams(u), off))
       ELSE Answer(NewClient(t), HevyError(NoTokenMsg), DataRespond(HevyError(NoTokenMsg)))

\* the transport ends the outbound call: a response or an exception
TransportGives(S) ==
    /\ pc = "call"
    /\ \E o \in OutcomesFor(call.path) \cap S : outcome' = o
    /\ pc' = "back"
    /\ UNCHANGED <<client, req, call, ncalls, ret, resp, clock, limiter, accepted>>

AllOutcomes == UNION {OutcomesFor(p) : p \in
    {"/login", "/validate_auth_token", "/user/account", "/user_workouts_paged"}}
TransportEnds == TransportGives(AllOutcomes)

\* what the client method makes of the outcome
Finished ==
    CASE req.ep = "login" -> LoginFinish(client, req.id, outcome, call)
      [] req.ep = "validate" -> ValidateFinish(client, outcome, call)
      [] req.ep = "account" -> AccountFinish(client, outcome, call)
      [] req.ep = "workouts" -> WorkoutsFinish(client, outcome, call)

Respond(r) ==
    CASE req.ep = "login" -> LoginRespond(r)
      [] req.ep = "validate" -> ValidateRespond(r)
      [] req.ep \in {"account", "workouts"} -> DataRespond(r)

\* the rest of the handler, after the outbound call
RelayFinish ==
    /\ pc = "back"
    /\ req.layer = "relay"
    /\ pc' = "idle"
    /\ client' = Finished.client
    /\ ret' = Finished.ret
    /\ resp' = Respond(Finished.ret)
    /\ call' = NoCall
    /\ UNCHANGED <<req, ncalls, outcome, clock, limiter, accepted>>

\* time passes
TickSeconds == WindowSeconds \div 3
Tick ==
    /\ pc = "idle"
    /\ clock + TickSeconds <= MaxWindows * WindowSeconds
    /\ clock' = clock + TickSeconds
    /\ accepted' = [a \in Addrs |-> Recent(accepted[a], clock')]
    /\ UNCHANGED <<client, pc, req, call, ncalls, outcome, ret, resp, limiter>>

Next ==
    \/ \E a \in Addrs, id \in Identifiers : RelayLogin(a, id)
    \/ \E t \in HeaderTokens : RelayValidate(t)
    \/ \E t \in HeaderTokens : RelayAccount(t)
    \/ \E t \in HeaderTokens, u \in Usernames, off \in Offsets : RelayWorkouts(t, u, off)
    \/ TransportEnds
    \/ RelayFinish

Spec == Init /\ [][Next]_vars

\* A call that carries a timeout is ended by the transport once it runs out;
\* a call without one waits for as long as the service stays silent.
TimeoutExpires == call.timeout # "none" /\ TransportGives({Raised("Timeout")})

\* The handler goes on as soon as the transport is back; nothing makes the
\* external service answer.
FairSpec == Spec /\ WF_vars(RelayFinish) /\ WF_vars(TimeoutExpires)

\* The limiter over time: login requests from the source addresses, answered
\* by the external service with an issued token or with a 401
RateOutcomes ==
    {Response(200, "OK", [json |-> "dict", auth_token |-> T2, user_id |-> U1,
                          workouts |-> "none"]),
     Response(401, "Unauthorized", NoBody)}
RateTransportEnds == TransportGives(RateOutcomes)
RateNext ==
    \/ \E a \in Addrs : RelayLogin(a, Bob)
    \/ RateTransportEnds
    \/ RelayFinish
    \/ Tick

RateSpec == Init /\ [][RateNext]_vars

\* Direct use of one HevyClient instance
ClientInit == \E t \in CtorTokens : InitWith(NewClient(t))

ClientBegin(r) ==
    /\ pc = "idle"
    /\ req' = r
    /\ UNCHANGED <<clock, limiter, accepted>>

ClientLogin(id) ==
    /\ ClientBegin(ClientReq("login", id, <<>>, 0))
    /\ Issue(client, Outbound(client, "/login", <<>>, 0))

ClientValidate ==
    /\ ClientBegin(ClientReq("validate", <<>>, <<>>, 0))
    /\ IF ValidateHasToken(client)
       THEN Issue(client, Outbound(client, "/validate_auth_token", <<>>, 0))
       ELSE Answer(client, Returned([NoVal EXCEPT !.valid = FALSE]), NoResp)

ClientAccount ==
    /\ ClientBegin(ClientReq("account", <<>>, <<>>, 0))
    /\ IF AccountHasToken(client)
       THEN Issue(client, Outbound(client, "/user/account", <<>>, 0))
       ELSE Answer(client, HevyError(NoTokenMsg), NoResp)

ClientWorkouts(u, off) ==
    /\ ClientBegin(ClientReq("workouts", <<>>, u, off))
    /\ IF WorkoutsHasToken(client)
       THEN Issue(client, Outbound(client, "/user_workouts_paged", WorkoutParams(u), off))
       ELSE Answer(client, HevyError(NoTokenMsg), NoResp)

\* the method returns or raises
ClientFinish ==
    /\ pc = "back"
    /\ req.layer = "client"
    /\ pc' = "idle"
    /\ client' = Finished.client
    /\ ret' = Finished.ret
    /\ call' = NoCall
    /\ UNCHANGED <<req, ncalls, outcome, resp, clock, limiter, accepted>>

ClientNext ==
    \/ \E id \in Identifiers : ClientLogin(id)
    \/ ClientValidate
    \/ ClientAccount
    \/ \E u \in Usernames, off \in Offsets : ClientWorkouts(u, off)
    \/ TransportEnds
    \/ ClientFinish

ClientSpec == ClientInit /\ [][ClientNext]_vars

----------------------------------------------------------------------------
(* Properties *)

AuthPaths == {"/validate_auth_token", "/user/account", "/user_workouts_paged"}
Done(layer, eps) == pc = "idle" /\ req.layer = layer /\ req.ep \in eps

\* C1: on a client whose stored token is absent (None or ""), validate_auth_token,
\* get_user_account and get_workouts issue no outbound call: validate_auth_token
\* returns False, the other two raise HevyError; an outbound call to one of the
\* three authenticated paths implies a non-empty stored token.
C1_NoTokenNoCall ==
    /\ call.path \in AuthPaths => Truthy(client.auth_token) /\ call.hdr = client.auth_token
    /\ (req.layer = "client" /\ req.ep \in {"validate", "account", "workouts"}
            /\ ~Truthy(client.auth_token)) =>
          /\ pc = "idle" /\ ncalls = 0 /\ outcome = NoOutcome
          /\ req.ep = "validate" => ret = Returned([NoVal EXCEPT !.valid = FALSE])
          /\ req.ep # "validate" => ret.kind = "HevyError"
C1_Witness ==
    /\ Done("client", {"workouts"}) /\ client.auth_token = <<>>
    /\ ncalls = 0 /\ ret.kind = "HevyError"

\* C2: an account or workouts request whose auth-token header is missing (absent
\* or empty) gets a 401 response and causes no outbound call.
C2_MissingHeaderUnauthorized ==
    (Done("relay", {"account", "workouts"}) /\ ~Truthy(req.token)) =>
        resp.status = 401 /\ ncalls = 0

\* C3: on login, account and workouts every client-wrapper error is mapped by
\* kind: 401 from the service (expired token, or wrong credentials on login)
\* gives 401, every other kind gives 500.
C3_ErrorsMappedByKind ==
    (Done("relay", {"login", "account", "workouts"}) /\ ncalls = 1
            /\ ret.kind = "HevyError") =>
        resp.status = IF outcome.kind = "response" /\ outcome.status = 401
                      THEN 401 ELSE 500

\* C4: in every interval of 60 seconds at most 5 login requests of one source
\* address reach the client wrapper; a rejected request causes no call.
C4_AtMostFivePerMinute ==
    /\ \A a \in Addrs : Len(Recent(accepted[a], clock)) <= LoginLimit
    /\ resp = TooManyRequests => ncalls = 0 /\ call = NoCall

\* C5: every outbound call is bounded by a transport timeout, so every relay
\* request whose call is in flight eventually gets its response even if the
\* external service never answers.
C5_EveryRequestAnswered == (pc = "call") ~> (pc = "idle")

\* C6: no exception escapes a relay handler unmapped, whatever fails after the
\* request is accepted.
C6_NoUnmappedException ==
    Done("relay", {"login", "validate", "account", "workouts"}) =>
        resp.kind # "escaped" /\ ret.kind # "exception"

\* C7: a login that the external service rejects with HTTP 401 gets a 401
\* response with the invalid-credentials cause, never a 500.
C7_WrongCredentialsUnauthorized ==
    (Done("relay", {"login"}) /\ outcome.kind = "response" /\ outcome.status = 401) =>
        /\ ret = HevyError(<<"Invalid credentials">>)
        /\ resp = HTTPException(401, <<"Invalid credentials">>)
C7_Witness ==
    /\ Done("relay", {"login"}) /\ outcome = Response(401, "Unauthorized", NoBody)
    /\ resp.status = 401

\* C8: with a stored token validate_auth_token makes exactly one outbound call
\* and returns True iff the response status is 200; another status is a plain
\* False.  HevyError is raised only when the transport fails, and exactly then
\* the relay's validate response has valid = false with an error message.
C8_ValidateResult ==
    (Done("relay", {"validate"}) /\ Truthy(req.token)) =>
        /\ client = NewClient(req.token)
        /\ ncalls = 1
        /\ outcome.kind = "response" =>
              /\ ret = Returned([NoVal EXCEPT !.valid = (outcome.status = 200)])
              /\ resp = Json(ret.val, None)
        /\ ret.kind = "HevyError" <=> outcome.kind \in {"ConnectionError", "Timeout"}
        /\ (resp.kind = "json" /\ resp.error # None) <=> ret.kind = "HevyError"
        /\ resp.error # None => ~resp.val.valid /\ resp.error = ret.msg
C8_Witness ==
    /\ Done("relay", {"validate"}) /\ client.auth_token = T1
    /\ outcome.kind = "response" /\ outcome.status = 204
    /\ resp = Json([NoVal EXCEPT !.valid = FALSE], None)

\* C9: a successful login returns the token and user id the service issued and
\* an identity taken from the identifier: with "@" in it, email is the
\* identifier and username is absent; without, username is the identifier and
\* email is absent; exactly one of the two is set.
C9_LoginIdentity ==
    (Done("relay", {"login"}) /\ ret.kind = "return") =>
        /\ ret.val.auth_token = outcome.body.auth_token
        /\ ret.val.user_id = outcome.body.user_id
        /\ In("@", req.id) => ret.val.email = req.id /\ ret.val.username = None
        /\ ~In("@", req.id) => ret.val.username = req.id /\ ret.val.email = None
        /\ (ret.val.username = None) # (ret.val.email = None)
        /\ resp.kind = "json" => resp.val = ret.val /\ resp.status = 200
C9_Witness ==
    /\ Done("relay", {"login"}) /\ req.id = Mail /\ resp.kind = "json"
    /\ resp.val.email = Mail /\ resp.val.auth_token = T2 /\ resp.val.user_id = U1

\* C10: the stored token changes only on a successful login, where it becomes
\* the non-empty token returned to the caller; a failed login, validate_auth_token,
\* get_user_account and get_workouts leave token and header as they are; the
\* auth-token header of an outbound call equals the stored token.
SameToken(h, t) == h = t \/ (h = None /\ ~Truthy(t))
C10_TokenOnlyFromLogin ==
    [][/\ client'.auth_token # client.auth_token =>
            /\ req.ep = "login" /\ ret'.kind = "return"
            /\ Truthy(client'.auth_token)
            /\ client'.auth_token = ret'.val.auth_token
       /\ client'.hdr # client.hdr => req.ep = "login" /\ ret'.kind = "return"
       /\ call'.path # "none" => SameToken(call'.hdr, client'.auth_token)]_vars

====
